---- MODULE Spec2Model ----
(***************************************************************************)
(* hono-wide-logger: the wideLogger middleware (one wide event per         *)
(* request, finalized after the downstream handler and emitted or dropped  *)
(* by a tail-sampling decision) and the defaultSampling policy.            *)
(*                                                                         *)
(* JavaScript objects are functions from property names to values; a       *)
(* property that was never written is a name outside the DOMAIN.  A        *)
(* string-typed property that was written with the value undefined holds   *)
(* Undefined.  Numbers of Math.random() and of sampleRate are counted in   *)
(* units of 1/RandomUnits.                                                 *)
(***************************************************************************)
EXTENDS Integers, Sequences, FiniteSets, TLC

VARIABLES
    options,    \* the WideLoggerOptions handed to wideLogger()
    nodeEnv,    \* process.env.NODE_ENV
    req,        \* the inbound request: method, path, headers
    now,        \* Date.now()
    pc,         \* position of the middleware call
    startTime,  \* const startTime
    requestId,  \* const requestId
    event,      \* const event (the live, mutable wide event)
    snapshot,   \* the value the last getEvent() returned to the handler
    resHeaders, \* response headers written through c.header
    nCalls,     \* handler API calls made so far
    handlerResult, \* how await next() ended: pending, returned or threw
    pending,    \* completion of the try/catch statement: normal, or the error in flight
    shouldLog,  \* const shouldLog
    calls,      \* calls made to the collaborators (sampling, logger, storage), in order
    writes,     \* assignments made so far to event.status_code and event.duration_ms
    outcome,    \* how the middleware call ended: returned, or the error it threw
    sPc,        \* defaultSampling called directly: "ready" or "returned"
    sEvent,     \*   its event argument
    sOptions,   \*   its options argument
    sDraw,      \*   the value Math.random() returned, in 1/RandomUnits
    sResult,    \*   its return value
    hEvent,     \* the handle (WideLoggerContext) used directly: the event it closes over
    hEnv,       \*   process.env.NODE_ENV during its calls
    hLog,       \*   the calls made on it, in order
    hReturned,  \*   the object the last getEvent() returned, as the caller left it
    cPc,        \* two concurrent requests: position of each middleware call
    cEvent,     \*   const event of each call
    cLog,       \*   the calls each handler made on its own handle, in order
    cInfo       \*   the calls made to the shared logger.info, in order

mwVars == <<options, nodeEnv, req, now, pc, startTime, requestId, event, snapshot,
            resHeaders, nCalls, handlerResult, pending, shouldLog, calls, writes,
            outcome>>
sVars == <<sPc, sEvent, sOptions, sDraw, sResult>>
hVars == <<hEvent, hEnv, hLog, hReturned>>
cVars == <<cPc, cEvent, cLog, cInfo>>
vars == <<options, nodeEnv, req, now, pc, startTime, requestId, event, snapshot,
          resHeaders, nCalls, handlerResult, pending, shouldLog, calls, writes,
          outcome, sPc, sEvent, sOptions, sDraw, sResult, hEvent, hEnv, hLog,
          hReturned, cPc, cEvent, cLog, cInfo>>

(***************************************************************************)
(* Bounds of the model.                                                    *)
(***************************************************************************)
MaxCalls == 2

(***************************************************************************)
(* JavaScript values.                                                      *)
(***************************************************************************)
Undefined == "<undefined>"
EmptyObj == [k \in {} |-> Undefined]

Has(o, k) == k \in DOMAIN o

\* { ...a, ...b }
Spread(a, b) ==
    [k \in (DOMAIN a) \cup (DOMAIN b) |-> IF k \in DOMAIN b THEN b[k] ELSE a[k]]

\* o[k] = v
Assign(o, k, v) == [x \in (DOMAIN o) \cup {k} |-> IF x = k THEN v ELSE o[x]]

\* a || b for strings: "" and undefined are falsy
OrStr(a, b) == IF a = Undefined \/ a = "" THEN b ELSE a

\* a || b for numbers: an absent property, 0 and NaN are falsy
OrNum(o, k, b) == IF Has(o, k) /\ o[k] # 0 THEN o[k] ELSE b

(***************************************************************************)
(* defaultSampling (sampling.ts).  draw is the value Math.random() returns *)
(* when the last branch is reached; draw and options.sampleRate are in     *)
(* units of 1/RandomUnits (0.05 is 1).                                     *)
(***************************************************************************)
RandomUnits == 20
DefaultErrorCode == 500

Draws == 0 .. (RandomUnits - 1)

DefaultSamplingStrictStatus(ev, o, draw) ==
    IF Has(ev, "status_code") /\ ev.status_code # 0
       /\ ev.status_code > OrNum(o, "errorCode", DefaultErrorCode)
    THEN TRUE
    ELSE IF Has(ev, "error") THEN TRUE
    ELSE IF Has(ev, "duration_ms") /\ ev.duration_ms # 0
            /\ ev.duration_ms > o.slowThresholdMs
    THEN TRUE
    ELSE draw < o.sampleRate

DefaultSamplingNoErrorRule(ev, o, draw) ==
    IF Has(ev, "status_code") /\ ev.status_code # 0
       /\ ev.status_code >= OrNum(o, "errorCode", DefaultErrorCode)
    THEN TRUE
    ELSE IF Has(ev, "duration_ms") /\ ev.duration_ms # 0
            /\ ev.duration_ms > o.slowThresholdMs
    THEN TRUE
    ELSE draw < o.sampleRate

DefaultSamplingSlowInclusive(ev, o, draw) ==
    IF Has(ev, "status_code") /\ ev.status_code # 0
       /\ ev.status_code >= OrNum(o, "errorCode", DefaultErrorCode)
    THEN TRUE
    ELSE IF Has(ev, "error") THEN TRUE
    ELSE IF Has(ev, "duration_ms") /\ ev.duration_ms # 0
            /\ ev.duration_ms >= o.slowThresholdMs
    THEN TRUE
    ELSE draw < o.sampleRate

DefaultSamplingThreshold400(ev, o, draw) ==
    IF Has(ev, "status_code") /\ ev.status_code # 0
       /\ ev.status_code >= OrNum(o, "errorCode", 400)
    THEN TRUE
    ELSE IF Has(ev, "error") THEN TRUE
    ELSE IF Has(ev, "duration_ms") /\ ev.duration_ms # 0
            /\ ev.duration_ms > o.slowThresholdMs
    THEN TRUE
    ELSE draw < o.sampleRate

DefaultSamplingErrorNeedsFailure(ev, o, draw) ==
    IF Has(ev, "status_code") /\ ev.status_code # 0
       /\ ev.status_code >= OrNum(o, "errorCode", DefaultErrorCode)
    THEN TRUE
    ELSE IF Has(ev, "error") /\ Has(ev, "status_code") /\ ev.status_code >= 400 THEN TRUE
    ELSE IF Has(ev, "duration_ms") /\ ev.duration_ms # 0
            /\ ev.duration_ms > o.slowThresholdMs
    THEN TRUE
    ELSE draw < o.sampleRate

DefaultSamplingDrawInclusive(ev, o, draw) ==
    IF Has(ev, "status_code") /\ ev.status_code # 0
       /\ ev.status_code >= OrNum(o, "errorCode", DefaultErrorCode)
    THEN TRUE
    ELSE IF Has(ev, "error") THEN TRUE
    ELSE IF Has(ev, "duration_ms") /\ ev.duration_ms # 0
            /\ ev.duration_ms > o.slowThresholdMs
    THEN TRUE
    ELSE draw <= o.sampleRate

defaultSampling(ev, o, draw) ==
    IF Has(ev, "status_code") /\ ev.status_code # 0
       /\ ev.status_code >= OrNum(o, "errorCode", DefaultErrorCode)
    THEN TRUE
    ELSE IF Has(ev, "error") THEN TRUE
    ELSE IF Has(ev, "duration_ms") /\ ev.duration_ms # 0
            /\ ev.duration_ms > o.slowThresholdMs
    THEN TRUE
    ELSE draw < o.sampleRate

(***************************************************************************)
(* Request context capture (middleware.ts, the Start of the middleware).   *)
(***************************************************************************)
DefaultSlowThresholdMs == 2000
DefaultSampleRate == 1
FailureStatus == 500

\* Header names are matched case-insensitively (Headers.get).
Lower(name) == IF name = "Content-type" THEN "content-type" ELSE name

\* c.req.header(name)
header(r, name) ==
    IF Lower(name) \in DOMAIN r.headers THEN r.headers[Lower(name)] ELSE Undefined

Pad2(n) == IF n < 10 THEN "0" \o ToString(n) ELSE ToString(n)

Pad3(n) ==
    IF n < 10 THEN "00" \o ToString(n)
    ELSE IF n < 100 THEN "0" \o ToString(n) ELSE ToString(n)

\* new Date(t).toISOString(), for t within the first minute of the epoch
toISOString(t) ==
    "1970-01-01T00:00:" \o Pad2(t \div 1000) \o "." \o Pad3(t % 1000) \o "Z"

\* const defaultOptions
defaultOptions ==
    [slowThresholdMs |-> DefaultSlowThresholdMs,
     sampleRate |-> DefaultSampleRate,
     generateRequestId |-> "randomUUID",
     requestIdHeader |-> "x-request-id"]

\* const opts = { ...defaultOptions, logger: options?.logger ?? console, ...options }
Opts(o) ==
    Spread(Spread(defaultOptions,
                  [logger |-> IF Has(o, "logger") THEN o.logger ELSE "console"]),
           o)

\* opts.generateRequestId?.(): the generator named by opts, uuid being what
\* crypto.randomUUID() returns at this call
generateRequestId(opts, uuid) ==
    IF ~Has(opts, "generateRequestId") \/ opts.generateRequestId = Undefined THEN Undefined
    ELSE IF opts.generateRequestId = "randomUUID" THEN uuid
    ELSE IF opts.generateRequestId = "fixed" THEN "req-generated"
    ELSE ""

ResolveRequestIdNullish(opts, r, uuid) ==
    LET h == header(r, OrStr(opts.requestIdHeader, "x-request-id"))
        g == generateRequestId(opts, uuid)
    IN  IF h # Undefined THEN h ELSE IF g # Undefined THEN g ELSE uuid

\* const requestId = c.req.header(...) || opts.generateRequestId?.() || crypto.randomUUID()
ResolveRequestId(opts, r, uuid) ==
    OrStr(header(r, OrStr(opts.requestIdHeader, "x-request-id")),
          OrStr(generateRequestId(opts, uuid), uuid))

InitialEventWithStatus(rid, t, r) ==
    [request_id |-> rid,
     timestamp |-> toISOString(t),
     method |-> r.method,
     path |-> r.path,
     status_code |-> 200,
     client_ip |-> OrStr(header(r, "x-forwarded-for"), header(r, "x-real-ip")),
     user_agent |-> header(r, "user-agent"),
     content_type |-> header(r, "Content-type")]

InitialEventRealIpFirst(rid, t, r) ==
    [request_id |-> rid,
     timestamp |-> toISOString(t),
     method |-> r.method,
     path |-> r.path,
     client_ip |-> OrStr(header(r, "x-real-ip"), header(r, "x-forwarded-for")),
     user_agent |-> header(r, "user-agent"),
     content_type |-> header(r, "Content-type")]

\* const event: Partial<WideEvent> = { ... }
InitialEvent(rid, t, r) ==
    [request_id |-> rid,
     timestamp |-> toISOString(t),
     method |-> r.method,
     path |-> r.path,
     client_ip |-> OrStr(header(r, "x-forwarded-for"), header(r, "x-real-ip")),
     user_agent |-> header(r, "user-agent"),
     content_type |-> header(r, "Content-type")]

(***************************************************************************)
(* The context API handed to the handler.                                  *)
(***************************************************************************)
addContextTopLevel(ev, category, data) == Spread(ev, data)

addContextReplacesSlot(ev, category, data) == Assign(ev, category, data)

addContextIntoUser(ev, category, data) ==
    Assign(ev, "user", Spread(IF Has(ev, "user") THEN ev["user"] ELSE EmptyObj, data))

\* addContext: event[category] = { ...event[category], ...data }
addContext(ev, category, data) ==
    Assign(ev, category,
           Spread(IF Has(ev, category) THEN ev[category] ELSE EmptyObj, data))

ErrorDetailsNoDefaults(error, metadata, env) ==
    Spread([type |-> error.name,
            code |-> IF Has(error, "code") THEN error.code ELSE Undefined,
            message |-> error.message,
            retriable |-> IF Has(error, "retriable") THEN error.retriable ELSE TRUE,
            stack |-> IF env = "development" THEN error.stack ELSE Undefined],
           metadata)

ErrorDetailsMetadataFirst(error, metadata, env) ==
    Spread(metadata,
           [type |-> error.name,
            code |-> IF Has(error, "code") THEN OrStr(error.code, "UNKNOWN")
                     ELSE "UNKNOWN",
            message |-> error.message,
            retriable |-> IF Has(error, "retriable") THEN error.retriable ELSE FALSE,
            stack |-> IF env = "development" THEN error.stack ELSE Undefined])

\* the object literal of addError, before it is assigned
ErrorDetails(error, metadata, env) ==
    Spread([type |-> error.name,
            code |-> IF Has(error, "code") THEN OrStr(error.code, "UNKNOWN")
                     ELSE "UNKNOWN",
            message |-> error.message,
            retriable |-> IF Has(error, "retriable") THEN error.retriable ELSE FALSE,
            stack |-> IF env = "development" THEN error.stack ELSE Undefined],
           metadata)

addErrorFirstWins(ev, error, metadata, env) ==
    IF Has(ev, "error") THEN ev
    ELSE Assign(ev, "error", ErrorDetails(error, metadata, env))

addErrorMerging(ev, error, metadata, env) ==
    Assign(ev, "error",
           Spread(IF Has(ev, "error") THEN ev.error ELSE EmptyObj,
                  ErrorDetails(error, metadata, env)))

\* addError: event.error = { type, code, message, retriable, stack, ...metadata }
addError(ev, error, metadata, env) ==
    Assign(ev, "error", ErrorDetails(error, metadata, env))

\* getEvent: () => ({ ...event })
getEvent(ev) == Spread(EmptyObj, ev)

\* the properties of o, among the string-typed ones in ks, that hold undefined
UndefinedProps(o, ks) == {k \in (DOMAIN o) \cap ks : o[k] = Undefined}

Omit(o, ks) == [k \in (DOMAIN o) \ ks |-> o[k]]

\* JSON.stringify(event): properties holding undefined are left out, in the event
\* and in its error substructure
JSONstringify(ev) ==
    LET top == Omit(ev, UndefinedProps(ev, {"request_id", "timestamp", "method", "path",
                                            "client_ip", "user_agent", "content_type"}))
    IN  IF Has(top, "error")
        THEN Assign(top, "error",
                    Omit(top.error,
                         UndefinedProps(top.error, {"type", "code", "message", "stack"})))
        ELSE top

(***************************************************************************)
(* Finalization (the try and catch blocks after await next()).             *)
(***************************************************************************)
FinalizeSuccessErrorAsFailure(ev, status, t, st) ==
    Assign(Assign(ev, "status_code", IF Has(ev, "error") THEN FailureStatus ELSE status),
           "duration_ms", t - st)

FinalizeSuccessDurationFromEpoch(ev, status, t, st) ==
    Assign(Assign(ev, "status_code", status), "duration_ms", t)

\* event.status_code = c.res.status; event.duration_ms = Date.now() - startTime
FinalizeSuccess(ev, status, t, st) ==
    Assign(Assign(ev, "status_code", status), "duration_ms", t - st)

FinalizeFailureNoDuration(ev, error, t, st, env) ==
    addError(Assign(ev, "status_code", FailureStatus), error, EmptyObj, env)

FinalizeFailureDurationOnly(ev, error, t, st, env) ==
    Assign(ev, "duration_ms", t - st)

FinalizeFailureKeepsManualError(ev, error, t, st, env) ==
    LET fin == Assign(Assign(ev, "status_code", FailureStatus), "duration_ms", t - st)
    IN  IF Has(ev, "error")
        THEN Assign(fin, "error", Spread(ev.error, ErrorDetails(error, EmptyObj, env)))
        ELSE addError(fin, error, EmptyObj, env)

\* event.status_code = 500; event.duration_ms = ...; wideLoggerContext.addError(error)
FinalizeFailure(ev, error, t, st, env) ==
    addError(Assign(Assign(ev, "status_code", FailureStatus), "duration_ms", t - st),
             error, EmptyObj, env)

\* the options object the middleware hands to defaultSampling
SamplingOptions(opts) ==
    Spread([slowThresholdMs |-> OrNum(opts, "slowThresholdMs", DefaultSlowThresholdMs),
            sampleRate |-> OrNum(opts, "sampleRate", DefaultSampleRate)],
           IF Has(opts, "errorCode") THEN [errorCode |-> opts.errorCode] ELSE EmptyObj)

(***************************************************************************)
(* Inputs.                                                                 *)
(***************************************************************************)
Categories == {"user", "business", "infra", "service"}

DataObjs == {[id |-> "u1", tier |-> "basic"], [tier |-> "premium", method |-> "card"]}

HandlerErrors ==
    {[name |-> "Error", message |-> "boom", stack |-> "Error: boom"],
     [name |-> "PaymentError", message |-> "declined", code |-> "card_declined",
      retriable |-> TRUE, stack |-> "PaymentError: declined"]}

Metadatas == {EmptyObj, [code |-> "PAYMENT_FAILED", order_id |-> "ord_456"]}

Statuses == {200, 404, 500}

\* the instants at which Date.now() is read
Instants == {0, 1, 2001}

UUIDs == {"uuid-1", "uuid-2"}

NodeEnvs == {"production", "development"}

Requests ==
    {[method |-> "GET", path |-> "/users/42", headers |-> EmptyObj],
     [method |-> "POST", path |-> "/orders",
      headers |-> ("x-request-id" :> "abc") @@ ("x-real-ip" :> "10.0.0.9")
                  @@ ("user-agent" :> "curl/8.0.0")]}

OptionObjs ==
    {Spread(Spread(a, b), c) :
        a \in {EmptyObj, [sampling |-> "custom"]},
        b \in {EmptyObj, [storage |-> "storage"]},
        c \in {EmptyObj}}

\* what a failing collaborator throws
SinkError(fn) == [name |-> "Error", message |-> fn, stack |-> "Error: sink"]

Normal == [kind |-> "normal"]
Throw(e) == [kind |-> "throw", error |-> e]

Call(fn, args, result) == [fn |-> fn, args |-> args, result |-> result]

(***************************************************************************)
(* The middleware call, one request.                                       *)
(***************************************************************************)
MwInit ==
    /\ options \in OptionObjs
    /\ nodeEnv \in NodeEnvs
    /\ req \in Requests
    /\ now = 0
    /\ pc = "idle"
    /\ startTime = 0
    /\ requestId = Undefined
    /\ event = EmptyObj
    /\ snapshot = EmptyObj
    /\ resHeaders = EmptyObj
    /\ nCalls = 0
    /\ handlerResult = [kind |-> "pending"]
    /\ pending = Normal
    /\ shouldLog = FALSE
    /\ calls = <<>>
    /\ writes = [status_code |-> 0, duration_ms |-> 0]
    /\ outcome = [kind |-> "running"]

SIdle ==
    /\ sPc = "idle"
    /\ sEvent = EmptyObj
    /\ sOptions = EmptyObj
    /\ sDraw = 0
    /\ sResult = FALSE

\* an object with an identity: the live event is "event", ({ ...event }) is a new one
Object(id, props) == [id |-> id, props |-> props]

NoObject == Object("none", EmptyObj)

HIdle ==
    /\ hEvent = EmptyObj
    /\ hEnv = "production"
    /\ hLog = <<>>
    /\ hReturned = NoObject

\* the two requests in flight at once on one middleware instance
ConcurrentRequests == {"r1", "r2"}

CIdle ==
    /\ cPc = [i \in ConcurrentRequests |-> "idle"]
    /\ cEvent = [i \in ConcurrentRequests |-> EmptyObj]
    /\ cLog = [i \in ConcurrentRequests |-> <<>>]
    /\ cInfo = <<>>

Init == MwInit /\ SIdle /\ HIdle /\ CIdle

StartGeneratesTwice ==
    /\ pc = "idle"
    /\ \E uuid \in UUIDs, uuid2 \in UUIDs :
          LET rid == ResolveRequestId(Opts(options), req, uuid)
          IN  /\ requestId' = rid
              /\ event' = InitialEvent(rid, now, req)
              /\ resHeaders' = Assign(resHeaders, "x-request-id",
                                      ResolveRequestId(Opts(options), req, uuid2))
    /\ startTime' = now
    /\ pc' = "processing"
    /\ UNCHANGED <<options, nodeEnv, req, now, snapshot, nCalls, handlerResult, pending,
                   shouldLog, calls, writes, outcome>>
    /\ UNCHANGED <<sVars, hVars, cVars>>

\* from const startTime = Date.now() to c.header("x-request-id", requestId)
Start ==
    /\ pc = "idle"
    /\ \E uuid \in UUIDs :
          LET rid == ResolveRequestId(Opts(options), req, uuid)
          IN  /\ requestId' = rid
              /\ event' = InitialEvent(rid, now, req)
              /\ resHeaders' = Assign(resHeaders, "x-request-id", rid)
    /\ startTime' = now
    /\ pc' = "processing"
    /\ UNCHANGED <<options, nodeEnv, req, now, snapshot, nCalls, handlerResult, pending,
                   shouldLog, calls, writes, outcome>>
    /\ UNCHANGED <<sVars, hVars, cVars>>

\* the handler calls c.get("wide-logger").addContext(category, data)
AddContext ==
    /\ pc = "processing"
    /\ nCalls < MaxCalls
    /\ \E category \in Categories, data \in DataObjs :
          event' = addContext(event, category, data)
    /\ nCalls' = nCalls + 1
    /\ UNCHANGED <<options, nodeEnv, req, now, pc, startTime, requestId, snapshot,
                   resHeaders, handlerResult, pending, shouldLog, calls, writes, outcome>>
    /\ UNCHANGED <<sVars, hVars, cVars>>

\* the handler calls addError(error, metadata)
AddError ==
    /\ pc = "processing"
    /\ nCalls < MaxCalls
    /\ \E error \in HandlerErrors, metadata \in Metadatas :
          event' = addError(event, error, metadata, nodeEnv)
    /\ nCalls' = nCalls + 1
    /\ UNCHANGED <<options, nodeEnv, req, now, pc, startTime, requestId, snapshot,
                   resHeaders, handlerResult, pending, shouldLog, calls, writes, outcome>>
    /\ UNCHANGED <<sVars, hVars, cVars>>

\* the handler calls getEvent()
GetEvent ==
    /\ pc = "processing"
    /\ nCalls < MaxCalls
    /\ snapshot' = getEvent(event)
    /\ nCalls' = nCalls + 1
    /\ UNCHANGED <<options, nodeEnv, req, now, pc, startTime, requestId, event,
                   resHeaders, handlerResult, pending, shouldLog, calls, writes, outcome>>
    /\ UNCHANGED <<sVars, hVars, cVars>>

\* time passes while the handler is suspended
Tick ==
    /\ pc = "processing"
    /\ \E t \in Instants : t > now /\ now' = t
    /\ UNCHANGED <<options, nodeEnv, req, pc, startTime, requestId, event, snapshot,
                   resHeaders, nCalls, handlerResult, pending, shouldLog, calls, writes,
                   outcome>>
    /\ UNCHANGED <<sVars, hVars, cVars>>

FinalizeWrites == [status_code |-> writes.status_code + 1,
                   duration_ms |-> writes.duration_ms + 1]

NextReturnsFromInitialEvent ==
    /\ pc = "processing"
    /\ \E status \in Statuses :
          /\ event' = FinalizeSuccess(InitialEvent(requestId, startTime, req), status, now,
                                      startTime)
          /\ handlerResult' = [kind |-> "returned", status |-> status]
    /\ writes' = FinalizeWrites
    /\ pending' = Normal
    /\ pc' = "sampling"
    /\ UNCHANGED <<options, nodeEnv, req, now, startTime, requestId, snapshot,
                   resHeaders, nCalls, shouldLog, calls, outcome>>
    /\ UNCHANGED <<sVars, hVars, cVars>>

\* await next() returns: the rest of the try block
NextReturns ==
    /\ pc = "processing"
    /\ \E status \in Statuses :
          /\ event' = FinalizeSuccess(event, status, now, startTime)
          /\ handlerResult' = [kind |-> "returned", status |-> status]
    /\ writes' = FinalizeWrites
    /\ pending' = Normal
    /\ pc' = "sampling"
    /\ UNCHANGED <<options, nodeEnv, req, now, startTime, requestId, snapshot,
                   resHeaders, nCalls, shouldLog, calls, outcome>>
    /\ UNCHANGED <<sVars, hVars, cVars>>

NextThrowsWithoutFinally ==
    /\ pc = "processing"
    /\ \E error \in HandlerErrors :
          /\ event' = FinalizeFailure(event, error, now, startTime, nodeEnv)
          /\ handlerResult' = [kind |-> "threw", error |-> error]
          /\ pending' = Throw(error)
          /\ outcome' = Throw(error)
    /\ writes' = FinalizeWrites
    /\ pc' = "done"
    /\ UNCHANGED <<options, nodeEnv, req, now, startTime, requestId, snapshot,
                   resHeaders, nCalls, shouldLog, calls>>
    /\ UNCHANGED <<sVars, hVars, cVars>>

\* await next() throws: the catch block, up to throw error
NextThrows ==
    /\ pc = "processing"
    /\ \E error \in HandlerErrors :
          /\ event' = FinalizeFailure(event, error, now, startTime, nodeEnv)
          /\ handlerResult' = [kind |-> "threw", error |-> error]
          /\ pending' = Throw(error)
    /\ writes' = FinalizeWrites
    /\ pc' = "sampling"
    /\ UNCHANGED <<options, nodeEnv, req, now, startTime, requestId, snapshot,
                   resHeaders, nCalls, shouldLog, calls, outcome>>
    /\ UNCHANGED <<sVars, hVars, cVars>>

\* the finally block ends with error e in flight
Abort(e) ==
    /\ pending' = Throw(e)
    /\ outcome' = Throw(e)
    /\ pc' = "done"

\* the finally block ends normally: the completion of try/catch stands
Complete ==
    /\ pending' = pending
    /\ outcome' = pending
    /\ pc' = "done"

AfterSamplingAlwaysLogs(r) ==
    IF r = "threw" THEN Abort(SinkError("sampling"))
    ELSE pc' = "info" /\ UNCHANGED <<pending, outcome>>

AfterSamplingThrowKeeps(r) ==
    IF r \in {"threw", "true"} THEN pc' = "info" /\ UNCHANGED <<pending, outcome>>
    ELSE Complete

\* a throwing sampling function ends the finally block; otherwise if (shouldLog) { ... }
AfterSampling(r) ==
    IF r = "threw" THEN Abort(SinkError("sampling"))
    ELSE IF r = "true" THEN pc' = "info" /\ UNCHANGED <<pending, outcome>>
    ELSE Complete

EvalSamplingComposed ==
    /\ pc = "sampling"
    /\ LET opts == Opts(options)
       IN  IF Has(opts, "sampling")
           THEN \E c \in {"true", "false", "threw"}, draw \in Draws :
                   LET d == defaultSampling(event, SamplingOptions(opts), draw)
                       r == IF c = "false" /\ d THEN "true" ELSE c
                   IN  /\ calls' = Append(calls, Call("sampling", <<event>>, c))
                       /\ shouldLog' = (r = "true")
                       /\ AfterSampling(r)
           ELSE \E r \in {defaultSampling(event, SamplingOptions(opts), draw) :
                              draw \in Draws} :
                   /\ calls' = Append(calls,
                                      Call("defaultSampling",
                                           <<event, SamplingOptions(opts)>>,
                                           IF r THEN "true" ELSE "false"))
                   /\ shouldLog' = r
                   /\ AfterSampling(IF r THEN "true" ELSE "false")
    /\ UNCHANGED <<options, nodeEnv, req, now, startTime, requestId, event, snapshot,
                   resHeaders, nCalls, handlerResult, writes>>
    /\ UNCHANGED <<sVars, hVars, cVars>>

\* finally: const shouldLog = opts.sampling ? opts.sampling(event) : defaultSampling(...)
EvalSampling ==
    /\ pc = "sampling"
    /\ LET opts == Opts(options)
       IN  IF Has(opts, "sampling")
           THEN \E r \in {"true", "false", "threw"} :
                   /\ calls' = Append(calls, Call("sampling", <<event>>, r))
                   /\ shouldLog' = (r = "true")
                   /\ AfterSampling(r)
           ELSE \E r \in {defaultSampling(event, SamplingOptions(opts), draw) :
                              draw \in Draws} :
                   /\ calls' = Append(calls,
                                      Call("defaultSampling",
                                           <<event, SamplingOptions(opts)>>,
                                           IF r THEN "true" ELSE "false"))
                   /\ shouldLog' = r
                   /\ AfterSampling(IF r THEN "true" ELSE "false")
    /\ UNCHANGED <<options, nodeEnv, req, now, startTime, requestId, event, snapshot,
                   resHeaders, nCalls, handlerResult, writes>>
    /\ UNCHANGED <<sVars, hVars, cVars>>

LogInfoByLevel ==
    /\ pc = "info"
    /\ \E r \in {"ok", "threw"} :
          /\ calls' = Append(calls,
                             Call(IF Has(event, "error") THEN "logger.error"
                                  ELSE "logger.info",
                                  <<"wide-event", event>>, r))
          /\ IF r = "threw" THEN Abort(SinkError("logger.info"))
             ELSE IF Has(Opts(options), "storage")
                  THEN pc' = "set" /\ UNCHANGED <<pending, outcome>>
                  ELSE Complete
    /\ UNCHANGED <<options, nodeEnv, req, now, startTime, requestId, event, snapshot,
                   resHeaders, nCalls, handlerResult, shouldLog, writes>>
    /\ UNCHANGED <<sVars, hVars, cVars>>

\* if (shouldLog) opts.logger.info(JSON.stringify(event))
LogInfo ==
    /\ pc = "info"
    /\ \E r \in {"ok", "threw"} :
          /\ calls' = Append(calls, Call("logger.info", <<JSONstringify(event)>>, r))
          /\ IF r = "threw" THEN Abort(SinkError("logger.info"))
             ELSE IF Has(Opts(options), "storage")
                  THEN pc' = "set" /\ UNCHANGED <<pending, outcome>>
                  ELSE Complete
    /\ UNCHANGED <<options, nodeEnv, req, now, startTime, requestId, event, snapshot,
                   resHeaders, nCalls, handlerResult, shouldLog, writes>>
    /\ UNCHANGED <<sVars, hVars, cVars>>

StorageSetCaught ==
    /\ pc = "set"
    /\ \E r \in {"ok", "threw"} :
          /\ calls' = Append(calls, Call("storage.set", <<requestId, event>>, r))
          /\ Complete
    /\ UNCHANGED <<options, nodeEnv, req, now, startTime, requestId, event, snapshot,
                   resHeaders, nCalls, handlerResult, shouldLog, writes>>
    /\ UNCHANGED <<sVars, hVars, cVars>>

\* if (opts.storage) await opts.storage.set(requestId, event)
StorageSet ==
    /\ pc = "set"
    /\ \E r \in {"ok", "threw"} :
          /\ calls' = Append(calls, Call("storage.set", <<requestId, event>>, r))
          /\ IF r = "threw" THEN Abort(SinkError("storage.set")) ELSE Complete
    /\ UNCHANGED <<options, nodeEnv, req, now, startTime, requestId, event, snapshot,
                   resHeaders, nCalls, handlerResult, shouldLog, writes>>
    /\ UNCHANGED <<sVars, hVars, cVars>>

Next ==
    \/ Start
    \/ AddContext
    \/ AddError
    \/ GetEvent
    \/ Tick
    \/ NextReturns
    \/ NextThrows
    \/ EvalSampling
    \/ LogInfo
    \/ StorageSet

Spec == Init /\ [][Next]_vars

(***************************************************************************)
(* The middleware call under the default sampling policy, for tuned        *)
(* sampleRate, errorCode and slowThresholdMs options.                      *)
(***************************************************************************)
PolicyOptionObjs ==
    {Spread(a, b) :
        a \in {EmptyObj, [sampleRate |-> 0], [sampleRate |-> RandomUnits \div 2],
               [sampleRate |-> RandomUnits]},
        b \in {EmptyObj, [errorCode |-> 400], [errorCode |-> 500]}}
    \cup {[sampleRate |-> 0, slowThresholdMs |-> 0],
          [sampleRate |-> 0, slowThresholdMs |-> 1000],
          [sampleRate |-> RandomUnits, storage |-> "storage"]}

PolicyInit ==
    /\ options \in PolicyOptionObjs
    /\ nodeEnv = "production"
    /\ req \in {r \in Requests : Has(r.headers, "x-request-id")}
    /\ now = 0
    /\ pc = "idle"
    /\ startTime = 0
    /\ requestId = Undefined
    /\ event = EmptyObj
    /\ snapshot = EmptyObj
    /\ resHeaders = EmptyObj
    /\ nCalls = 0
    /\ handlerResult = [kind |-> "pending"]
    /\ pending = Normal
    /\ shouldLog = FALSE
    /\ calls = <<>>
    /\ writes = [status_code |-> 0, duration_ms |-> 0]
    /\ outcome = [kind |-> "running"]
    /\ SIdle
    /\ HIdle
    /\ CIdle

PolicySpec == PolicyInit /\ [][Next]_vars

(***************************************************************************)
(* The middleware call for requests with a query string, proxy headers and *)
(* request-id headers, under configured requestIdHeader and                *)
(* generateRequestId options.                                              *)
(***************************************************************************)
CaptureRequests ==
    {[method |-> "GET", path |-> "/users/42", query |-> [active |-> "true"],
      headers |-> EmptyObj],
     [method |-> "GET", path |-> "/test", query |-> [foo |-> "bar", baz |-> "qux"],
      headers |-> ("x-request-id" :> "abc") @@ ("x-forwarded-for" :> "192.168.1.1")
                  @@ ("x-real-ip" :> "10.0.0.1")],
     [method |-> "POST", path |-> "/orders", query |-> EmptyObj,
      headers |-> ("x-trace-id" :> "trace-7") @@ ("x-real-ip" :> "10.0.0.1")],
     [method |-> "GET", path |-> "/test", query |-> EmptyObj,
      headers |-> ("x-request-id" :> "") @@ ("x-forwarded-for" :> "")
                  @@ ("x-real-ip" :> "10.0.0.9")]}

CaptureOptionObjs ==
    {EmptyObj,
     [generateRequestId |-> "fixed"],
     [requestIdHeader |-> "x-trace-id", storage |-> "storage", sampleRate |-> RandomUnits]}

CaptureInit ==
    /\ options \in CaptureOptionObjs
    /\ nodeEnv = "production"
    /\ req \in CaptureRequests
    /\ now = 0
    /\ pc = "idle"
    /\ startTime = 0
    /\ requestId = Undefined
    /\ event = EmptyObj
    /\ snapshot = EmptyObj
    /\ resHeaders = EmptyObj
    /\ nCalls = 0
    /\ handlerResult = [kind |-> "pending"]
    /\ pending = Normal
    /\ shouldLog = FALSE
    /\ calls = <<>>
    /\ writes = [status_code |-> 0, duration_ms |-> 0]
    /\ outcome = [kind |-> "running"]
    /\ SIdle
    /\ HIdle
    /\ CIdle

CaptureSpec == CaptureInit /\ [][Next]_vars

(***************************************************************************)
(* defaultSampling called directly, as its tests do.                       *)
(***************************************************************************)
BaseEvent ==
    [request_id |-> "test", timestamp |-> "2024-01-01", method |-> "GET", path |-> "/test"]

SamplingEvents ==
    {Spread(Spread(Spread(Spread(BaseEvent, a), b), c), d) :
        a \in {EmptyObj} \cup {[status_code |-> n] : n \in {200, 399, 400, 404, 499, 500, 502}},
        b \in {EmptyObj} \cup {[duration_ms |-> n] : n \in {0, 100, 1000, 1001, 2000, 3000}},
        c \in {EmptyObj, [error |-> [type |-> "TestError", code |-> "TEST",
                                      message |-> "Test error"]]},
        d \in {EmptyObj, [user |-> [tier |-> "premium"]], [user |-> [tier |-> "basic"]]}}

SamplingOptionObjs ==
    {Spread([slowThresholdMs |-> t, sampleRate |-> r], e) :
        t \in {0, 1000, 2000},
        r \in {0, DefaultSampleRate, RandomUnits \div 2, RandomUnits},
        e \in {EmptyObj, [errorCode |-> 400], [errorCode |-> 500]}}

MwIdle ==
    /\ options = EmptyObj
    /\ nodeEnv = "production"
    /\ req = [method |-> "GET", path |-> "/test", headers |-> EmptyObj]
    /\ now = 0
    /\ pc = "idle"
    /\ startTime = 0
    /\ requestId = Undefined
    /\ event = EmptyObj
    /\ snapshot = EmptyObj
    /\ resHeaders = EmptyObj
    /\ nCalls = 0
    /\ handlerResult = [kind |-> "pending"]
    /\ pending = Normal
    /\ shouldLog = FALSE
    /\ calls = <<>>
    /\ writes = [status_code |-> 0, duration_ms |-> 0]
    /\ outcome = [kind |-> "running"]

SamplingInit ==
    /\ MwIdle
    /\ HIdle
    /\ CIdle
    /\ sPc = "ready"
    /\ sEvent \in SamplingEvents
    /\ sOptions \in SamplingOptionObjs
    /\ sDraw = 0
    /\ sResult = FALSE

\* expect(defaultSampling(event, options)): one call, Math.random() returning draw
CallDefaultSampling ==
    /\ sPc = "ready"
    /\ \E draw \in Draws :
          /\ sDraw' = draw
          /\ sResult' = defaultSampling(sEvent, sOptions, draw)
    /\ sPc' = "returned"
    /\ UNCHANGED <<sEvent, sOptions>>
    /\ UNCHANGED <<mwVars, hVars, cVars>>

SamplingNext == CallDefaultSampling

SamplingSpec == SamplingInit /\ [][SamplingNext]_vars

(***************************************************************************)
(* The handle (addContext, addError) used directly on one event, as the    *)
(* handlers of the context API tests do.                                   *)
(***************************************************************************)
HandleDataObjs == DataObjs \cup {[id |-> "u2"]}

HandleErrors ==
    HandlerErrors
    \cup {[name |-> "TypeError", message |-> "bad input", code |-> "",
           stack |-> "TypeError: bad input"],
          [name |-> "TimeoutError", message |-> "timed out", code |-> "ETIMEDOUT",
           retriable |-> FALSE, stack |-> "TimeoutError: timed out"]}

HandleMetadatas ==
    Metadatas
    \cup {[order_id |-> "ord_789", attempt |-> "2"],
          [type |-> "Overridden", code |-> "OVERRIDDEN", message |-> "overridden",
           retriable |-> TRUE, stack |-> "custom stack", order_id |-> "ord_1"]}

\* the event the handle closes over: as captured at Start, or already finalized
HandleEvents ==
    {InitialEvent("test-id", 0, r) : r \in Requests}
    \cup {FinalizeSuccess(InitialEvent("test-id", 0, r), 200, 5, 0) : r \in Requests}

HandleCall(fn, args) == [fn |-> fn, args |-> args]

HandleInit ==
    /\ MwIdle
    /\ SIdle
    /\ CIdle
    /\ hEvent \in HandleEvents
    /\ hEnv \in NodeEnvs
    /\ hLog = <<>>
    /\ hReturned = NoObject

\* logger.addContext(category, data)
CallAddContext ==
    /\ Len(hLog) < MaxCalls
    /\ \E category \in Categories, data \in HandleDataObjs :
          /\ hEvent' = addContext(hEvent, category, data)
          /\ hLog' = Append(hLog, HandleCall("addContext", <<category, data>>))
    /\ UNCHANGED <<hEnv, hReturned, mwVars, sVars, cVars>>

\* logger.addError(error, metadata)
CallAddError ==
    /\ Len(hLog) < MaxCalls
    /\ \E error \in HandleErrors, metadata \in HandleMetadatas :
          /\ hEvent' = addError(hEvent, error, metadata, hEnv)
          /\ hLog' = Append(hLog, HandleCall("addError", <<error, metadata>>))
    /\ UNCHANGED <<hEnv, hReturned, mwVars, sVars, cVars>>

getEventLive(ev) == Object("event", ev)

\* getEvent: () => ({ ...event }), the object literal being a new object
getEventObject(ev) == Object("snapshot", getEvent(ev))

\* logger.getEvent()
CallGetEvent ==
    /\ Len(hLog) < MaxCalls
    /\ hReturned' = getEventObject(hEvent)
    /\ hLog' = Append(hLog, HandleCall("getEvent", <<>>))
    /\ UNCHANGED <<hEvent, hEnv, mwVars, sVars, cVars>>

\* what a caller may do to the top-level keys of an object: add, reassign, delete
Mutations ==
    {[op |-> "set", key |-> "injected", value |-> "x"],
     [op |-> "set", key |-> "request_id", value |-> "forged"],
     [op |-> "delete", key |-> "path", value |-> Undefined]}

Mutate(o, m) == IF m.op = "set" THEN Assign(o, m.key, m.value) ELSE Omit(o, {m.key})

\* the caller mutates the object getEvent() returned; the write lands in the live
\* event exactly if that object is the live event
MutateReturned ==
    /\ Len(hLog) < MaxCalls
    /\ hReturned # NoObject
    /\ \E m \in Mutations :
          /\ hReturned' = Object(hReturned.id, Mutate(hReturned.props, m))
          /\ hEvent' = IF hReturned.id = "event" THEN Mutate(hReturned.props, m)
                        ELSE hEvent
          /\ hLog' = Append(hLog, HandleCall("mutate", <<m>>))
    /\ UNCHANGED <<hEnv, mwVars, sVars, cVars>>

HandleNext == CallAddContext \/ CallAddError \/ CallGetEvent \/ MutateReturned

HandleSpec == HandleInit /\ [][HandleNext]_vars

(***************************************************************************)
(* Two requests in flight at once on one middleware instance (one opts,    *)
(* one logger).  Each call of the returned async function has its own      *)
(* const event and wideLoggerContext; calls interleave at await next().    *)
(* What follows await next() (finalization and the finally block, with no  *)
(* storage configured) runs without suspending.                            *)
(***************************************************************************)
ConcurrentRequest(i) ==
    IF i = "r1"
    THEN [method |-> "GET", path |-> "/users/42", headers |-> EmptyObj]
    ELSE [method |-> "POST", path |-> "/orders",
          headers |-> ("x-request-id" :> "abc") @@ ("x-real-ip" :> "10.0.0.9")]

\* what each request's handler hands to its handle
ConcurrentData(i) ==
    IF i = "r1" THEN [id |-> "u1", tier |-> "basic"]
    ELSE [tier |-> "premium", method |-> "card"]

ConcurrentError(i) ==
    IF i = "r1" THEN [name |-> "Error", message |-> "boom", stack |-> "Error: boom"]
    ELSE [name |-> "PaymentError", message |-> "declined", code |-> "card_declined",
          retriable |-> TRUE, stack |-> "PaymentError: declined"]

ConcurrentCategories == {"user", "business"}

ConcurrentInit ==
    /\ MwIdle
    /\ SIdle
    /\ HIdle
    /\ CIdle

\* request i enters the middleware: up to await next()
CStart(i) ==
    /\ cPc[i] = "idle"
    /\ \E uuid \in UUIDs :
          cEvent' = [cEvent EXCEPT ![i] =
                        InitialEvent(ResolveRequestId(Opts(options), ConcurrentRequest(i),
                                                      uuid),
                                     now, ConcurrentRequest(i))]
    /\ cPc' = [cPc EXCEPT ![i] = "processing"]
    /\ UNCHANGED <<cLog, cInfo, mwVars, sVars, hVars>>

CAddContextShared(i) ==
    /\ cPc[i] = "processing"
    /\ Len(cLog[i]) < MaxCalls
    /\ \E category \in ConcurrentCategories :
          /\ cEvent' = [j \in ConcurrentRequests |->
                           IF cPc[j] = "processing"
                           THEN addContext(cEvent[j], category, ConcurrentData(i))
                           ELSE cEvent[j]]
          /\ cLog' = [cLog EXCEPT ![i] =
                         Append(@, HandleCall("addContext",
                                              <<category, ConcurrentData(i)>>))]
    /\ UNCHANGED <<cPc, cInfo, mwVars, sVars, hVars>>

\* the handler of request i calls addContext on its handle
CAddContext(i) ==
    /\ cPc[i] = "processing"
    /\ Len(cLog[i]) < MaxCalls
    /\ \E category \in ConcurrentCategories :
          /\ cEvent' = [cEvent EXCEPT ![i] =
                           addContext(@, category, ConcurrentData(i))]
          /\ cLog' = [cLog EXCEPT ![i] =
                         Append(@, HandleCall("addContext",
                                              <<category, ConcurrentData(i)>>))]
    /\ UNCHANGED <<cPc, cInfo, mwVars, sVars, hVars>>

\* the handler of request i calls addError on its handle
CAddError(i) ==
    /\ cPc[i] = "processing"
    /\ Len(cLog[i]) < MaxCalls
    /\ cEvent' = [cEvent EXCEPT ![i] = addError(@, ConcurrentError(i), EmptyObj, nodeEnv)]
    /\ cLog' = [cLog EXCEPT ![i] =
                   Append(@, HandleCall("addError", <<ConcurrentError(i), EmptyObj>>))]
    /\ UNCHANGED <<cPc, cInfo, mwVars, sVars, hVars>>

\* the finally block of request i on its finalized event ev: sampling, logger.info
CDispose(i, ev) ==
    /\ cEvent' = [cEvent EXCEPT ![i] = ev]
    /\ \E r \in {defaultSampling(ev, SamplingOptions(Opts(options)), draw) :
                     draw \in Draws} :
          cInfo' = IF r THEN Append(cInfo, [req |-> i, arg |-> JSONstringify(ev)])
                   ELSE cInfo
    /\ cPc' = [cPc EXCEPT ![i] = "done"]

\* await next() of request i returns: try block, then finally
CNextReturns(i) ==
    /\ cPc[i] = "processing"
    /\ \E status \in Statuses : CDispose(i, FinalizeSuccess(cEvent[i], status, now, now))
    /\ UNCHANGED <<cLog, mwVars, sVars, hVars>>

\* await next() of request i throws: catch block, then finally
CNextThrows(i) ==
    /\ cPc[i] = "processing"
    /\ CDispose(i, FinalizeFailure(cEvent[i], ConcurrentError(i), now, now, nodeEnv))
    /\ UNCHANGED <<cLog, mwVars, sVars, hVars>>

ConcurrentNext ==
    \E i \in ConcurrentRequests :
        \/ CStart(i)
        \/ CAddContext(i)
        \/ CAddError(i)
        \/ CNextReturns(i)
        \/ CNextThrows(i)

ConcurrentSpec == ConcurrentInit /\ [][ConcurrentNext]_vars

(***************************************************************************)
(* Properties.                                                             *)
(***************************************************************************)
SamplingFns == {"sampling", "defaultSampling"}

CallsOf(fns) == {i \in DOMAIN calls : calls[i].fn \in fns}

\* the event a collaborator was handed in a call
EventArg(c) == IF c.fn = "storage.set" THEN c.args[2] ELSE c.args[1]

Finalized(e) == Has(e, "status_code") /\ Has(e, "duration_ms")

IdentityFields == {"request_id", "timestamp", "method", "path"}

Identity(e) == [f \in IdentityFields |-> e[f]]

\* C1: once the handler has completed (returned or thrown) the disposition runs
\* exactly once: the sampling decision is evaluated exactly once by the time the
\* middleware call ends, never twice, and logger.info is called at most once; a
\* completed request whose sampling decision is still to come is at the sampling step.
C1_DispositionOnce ==
    /\ Cardinality(CallsOf(SamplingFns)) <= 1
    /\ Cardinality(CallsOf({"logger.info"})) <= 1
    /\ (pc \in {"info", "set", "done"} => Cardinality(CallsOf(SamplingFns)) = 1)
    /\ (handlerResult.kind # "pending" /\ CallsOf(SamplingFns) = {} => pc = "sampling")
    /\ (handlerResult.kind = "pending" => calls = <<>>)

C1_Witness ==
    /\ pc = "done"
    /\ handlerResult.kind = "threw"
    /\ Cardinality(CallsOf(SamplingFns)) = 1
    /\ Cardinality(CallsOf({"logger.info"})) = 1

\* C2: when the handler throws, the finalized event has status_code 500 and an error
\* whose message is the thrown error's message, and that same error propagates out
\* of the middleware call.
C2_HandlerErrorPropagates ==
    (pc = "done" /\ handlerResult.kind = "threw") =>
        /\ event.status_code = FailureStatus
        /\ Has(event, "error")
        /\ event.error.message = handlerResult.error.message
        /\ outcome = Throw(handlerResult.error)

\* C3: on the failure path, if a disposition step (sampling, logger.info, storage.set)
\* throws, the error that propagates out of the middleware call is still the
\* handler's error.
C3_DispositionThrowKeepsHandlerError ==
    (/\ pc = "done"
     /\ handlerResult.kind = "threw"
     /\ \E i \in DOMAIN calls : calls[i].result = "threw") =>
        outcome = Throw(handlerResult.error)

\* C4: logger.info is called only after a sampling decision that returned true;
\* storage.set is called only with a storage configured, after logger.info returned,
\* at most once and with the request's request_id as key; after a sampling decision
\* that did not return true neither is called.
C4_EmitOnlyWhenSampled ==
    /\ \A i \in CallsOf({"logger.info"}) :
          \E j \in CallsOf(SamplingFns) : j < i /\ calls[j].result = "true"
    /\ \A i \in CallsOf({"storage.set"}) :
          /\ Has(options, "storage")
          /\ \E j \in CallsOf({"logger.info"}) : j < i /\ calls[j].result = "ok"
          /\ calls[i].args[1] = event.request_id
    /\ Cardinality(CallsOf({"storage.set"})) <= 1
    /\ ((\E j \in CallsOf(SamplingFns) : calls[j].result # "true")
            => CallsOf({"logger.info", "storage.set"}) = {})

C4_Witness ==
    /\ pc = "done"
    /\ \E i \in CallsOf({"storage.set"}) : calls[i].result = "ok"
    /\ \E j \in CallsOf({"sampling"}) : calls[j].result = "true"

\* C5: the event handed to the sampling decision, to logger.info and to storage.set
\* already has status_code and duration_ms, on both paths; so has the live event at
\* every step of the disposition.
C5_FinalizedBeforeDisposition ==
    /\ \A i \in DOMAIN calls : Finalized(EventArg(calls[i]))
    /\ (pc \in {"sampling", "info", "set", "done"} => Finalized(event))

C5_Witness ==
    /\ pc = "done"
    /\ handlerResult.kind = "threw"
    /\ CallsOf({"storage.set"}) # {}
    /\ event.duration_ms > 0

\* C6: while the handler runs neither the event nor any getEvent() result has
\* status_code or duration_ms; each is assigned exactly once, at finalization.
C6_FinalFieldsSetOnce ==
    /\ (pc \in {"idle", "processing"} =>
            /\ ~Has(event, "status_code") /\ ~Has(event, "duration_ms")
            /\ writes = [status_code |-> 0, duration_ms |-> 0])
    /\ ~Has(snapshot, "status_code") /\ ~Has(snapshot, "duration_ms")
    /\ (pc \in {"sampling", "info", "set", "done"} =>
            writes = [status_code |-> 1, duration_ms |-> 1])

C6_Witness ==
    /\ pc = "done"
    /\ Has(snapshot, "error")
    /\ Has(snapshot, "request_id")
    /\ writes = [status_code |-> 1, duration_ms |-> 1]

\* C7: request_id, timestamp, method and path are present once the handler runs, hold
\* the values captured from the request, and no later step changes them.
C7_IdentityFieldsFixed ==
    /\ [](pc # "idle" =>
            /\ IdentityFields \subseteq DOMAIN event
            /\ event.method = req.method /\ event.path = req.path
            /\ event.request_id = requestId
            /\ event.timestamp = toISOString(startTime))
    /\ [][pc # "idle" => Identity(event') = Identity(event)]_vars

C7_Witness ==
    /\ pc = "done"
    /\ handlerResult.kind = "threw"
    /\ Has(event, "business")
    /\ snapshot # EmptyObj
    /\ calls # <<>>
    /\ Identity(event) = [request_id |-> "abc", timestamp |-> "1970-01-01T00:00:00.000Z",
                          method |-> "POST", path |-> "/orders"]

\* C8: defaultSampling returns true for every event whose status_code is present and
\* at least the error threshold (options.errorCode, 500 when not given), whatever the
\* draw, the sample rate and the other fields.
C8_ErrorStatusKept ==
    (/\ sPc = "returned"
     /\ Has(sEvent, "status_code")
     /\ sEvent.status_code >=
            (IF Has(sOptions, "errorCode") THEN sOptions.errorCode ELSE 500)) =>
        sResult = TRUE

C8_Witness ==
    /\ sPc = "returned"
    /\ Has(sEvent, "status_code") /\ sEvent.status_code = 500
    /\ DOMAIN sEvent = DOMAIN BaseEvent \cup {"status_code"}
    /\ ~Has(sOptions, "errorCode")
    /\ sOptions.sampleRate = 0
    /\ sDraw = RandomUnits - 1
    /\ sResult = TRUE

\* C9: defaultSampling returns true for every event that has an error substructure,
\* whatever its status_code, the draw and the sample rate.
C9_ErrorFieldKept ==
    (sPc = "returned" /\ Has(sEvent, "error")) => sResult = TRUE

C9_Witness ==
    /\ sPc = "returned"
    /\ Has(sEvent, "error")
    /\ Has(sEvent, "status_code") /\ sEvent.status_code = 200
    /\ ~Has(sEvent, "duration_ms")
    /\ sOptions.sampleRate = 0
    /\ sResult = TRUE

NotKeptAsError(ev, o) ==
    /\ ~Has(ev, "error")
    /\ Has(ev, "status_code") =>
          ev.status_code < (IF Has(o, "errorCode") THEN o.errorCode ELSE 500)

OnlyRandomBranch(ev, o) ==
    /\ NotKeptAsError(ev, o)
    /\ Has(ev, "duration_ms") => ev.duration_ms <= o.slowThresholdMs

ErrorThreshold(o) == IF Has(o, "errorCode") THEN o.errorCode ELSE 500

SlowThreshold(o) == IF Has(o, "slowThresholdMs") THEN o.slowThresholdMs ELSE 2000

\* a finished request that is neither an error nor slow under configuration o
PlainRequest(ev, o) ==
    /\ Finalized(ev)
    /\ ~Has(ev, "error")
    /\ ev.status_code < ErrorThreshold(o)
    /\ ev.duration_ms <= SlowThreshold(o)

\* C12: with wideLogger({ sampleRate: 0 }) and no custom sampling function, a request
\* that finishes with no error, a status below the error threshold and a duration not
\* above the slow threshold is never handed to logger.info.
C12_ZeroRateNeverEmitsPlain ==
    (/\ Has(options, "sampleRate") /\ options.sampleRate = 0
     /\ ~Has(options, "sampling")
     /\ PlainRequest(event, options)) =>
        CallsOf({"logger.info"}) = {}

\* C13: with a custom sampling function configured the default policy is not consulted:
\* the one sampling call is to the custom function, with the finalized event as its
\* only argument, and logger.info is called exactly when that call returned true, even
\* for a request that failed with status 500, carries an error and took over 2000 ms.
C13_CustomSamplingReplacesDefault ==
    Has(options, "sampling") =>
        /\ CallsOf({"defaultSampling"}) = {}
        /\ \A i \in CallsOf({"sampling"}) :
              /\ calls[i].args = <<event>>
              /\ Finalized(calls[i].args[1])
              /\ (calls[i].result = "true" /\ pc \in {"set", "done"})
                    => CallsOf({"logger.info"}) # {}
              /\ calls[i].result # "true" => CallsOf({"logger.info"}) = {}
        /\ (CallsOf({"logger.info"}) # {} => CallsOf({"sampling"}) # {})

C13_Witness ==
    /\ pc = "done"
    /\ Has(options, "sampling")
    /\ handlerResult.kind = "threw"
    /\ event.status_code = FailureStatus /\ Has(event, "error")
    /\ event.duration_ms > DefaultSlowThresholdMs
    /\ \E i \in CallsOf({"sampling"}) : calls[i].result = "false"
    /\ CallsOf({"logger.info"}) = {}

\* C14: under the default policy (no custom sampling function) a request whose handler
\* throws is kept by the sampling decision and handed to logger.info exactly once,
\* whatever the configured sample rate, the configured error threshold and the draw.
C14_ThrownRequestEmittedOnce ==
    (handlerResult.kind = "threw" /\ ~Has(options, "sampling")) =>
        /\ \A i \in CallsOf(SamplingFns) :
              calls[i].fn = "defaultSampling" /\ calls[i].result = "true"
        /\ Cardinality(CallsOf({"logger.info"})) <= 1
        /\ (pc \in {"set", "done"} => Cardinality(CallsOf({"logger.info"})) = 1)
        /\ (pc = "done" => shouldLog)

C14_Witness ==
    /\ pc = "done"
    /\ handlerResult.kind = "threw"
    /\ options = [sampleRate |-> 0, errorCode |-> 500]
    /\ event.duration_ms = 0
    /\ Cardinality(CallsOf({"logger.info"})) = 1

\* the positions in hLog of the addContext calls into category cat
ContextCalls(cat) ==
    {i \in DOMAIN hLog : hLog[i].fn = "addContext" /\ hLog[i].args[1] = cat}

\* the last of a non-empty set of positions
LastOf(is) == CHOOSE i \in is : \A j \in is : j <= i

\* C15: after any sequence of addContext calls the slot of a category is the
\* left-to-right shallow merge of the data objects supplied for it: its keys are the
\* union of their keys and each key holds the value of the last call that supplied it
\* (so for d1 then d2 a shared key takes d2's value and a key only in d1 survives); a
\* slot exists exactly when a call named its category, and no call removes a key from
\* a slot.
C15_ContextMergeLeftToRight ==
    /\ [](\A cat \in Categories :
            /\ Has(hEvent, cat) <=> ContextCalls(cat) # {}
            /\ Has(hEvent, cat) =>
                  /\ DOMAIN hEvent[cat] =
                        UNION {DOMAIN hLog[i].args[2] : i \in ContextCalls(cat)}
                  /\ \A k \in DOMAIN hEvent[cat] :
                        LET last == LastOf({i \in ContextCalls(cat) :
                                               k \in DOMAIN hLog[i].args[2]})
                        IN  hEvent[cat][k] = hLog[last].args[2][k])
    /\ [][\A cat \in Categories :
            Has(hEvent, cat) =>
                Has(hEvent', cat) /\ DOMAIN hEvent[cat] \subseteq DOMAIN hEvent'[cat]]_vars

C15_Witness ==
    /\ hLog = <<HandleCall("addContext", <<"user", [id |-> "u1", tier |-> "basic"]>>),
                HandleCall("addContext", <<"user", [tier |-> "premium", method |-> "card"]>>)>>
    /\ hEvent["user"] = [id |-> "u1", tier |-> "premium", method |-> "card"]

AutoFields ==
    {"request_id", "timestamp", "method", "path", "client_ip", "user_agent",
     "content_type", "status_code", "duration_ms"}

\* C16: an addContext(cat, data) call changes the slot cat only: every other property
\* of the event (the other three category slots, the error substructure and the
\* auto-captured fields) is present after the call exactly if it was before, with the
\* same value.
C16_ContextFrame ==
    [][(hLog' # hLog /\ hLog'[Len(hLog')].fn = "addContext") =>
          LET cat == hLog'[Len(hLog')].args[1]
          IN  /\ (DOMAIN hEvent') \ {cat} = (DOMAIN hEvent) \ {cat}
              /\ \A k \in (Categories \cup AutoFields \cup {"error"}) \ {cat} :
                    /\ Has(hEvent', k) <=> Has(hEvent, k)
                    /\ Has(hEvent, k) => hEvent'[k] = hEvent[k]]_vars

C16_Witness ==
    /\ Len(hLog) = 2
    /\ hLog[1].fn = "addError"
    /\ hLog[2] = HandleCall("addContext", <<"infra", [id |-> "u2"]>>)
    /\ Has(hEvent, "error") /\ hEvent.error.code = "card_declined"
    /\ Has(hEvent, "status_code") /\ Has(hEvent, "duration_ms")
    /\ hEvent["infra"] = [id |-> "u2"]

\* the positions in hLog of the addError calls
ErrorCalls == {i \in DOMAIN hLog : hLog[i].fn = "addError"}

DerivedFields == {"type", "code", "message", "retriable", "stack"}

\* C17: after addError(err) with no metadata the error substructure has type = the
\* error's name and message = the error's message; its code is "UNKNOWN" when the
\* error carries no code property and its retriable is false when the error carries
\* no retriable property.
C17_ErrorDefaults ==
    ErrorCalls # {} =>
        LET err == hLog[LastOf(ErrorCalls)].args[1]
            metadata == hLog[LastOf(ErrorCalls)].args[2]
        IN  metadata = EmptyObj =>
                /\ Has(hEvent, "error")
                /\ hEvent.error.type = err.name
                /\ hEvent.error.message = err.message
                /\ (~Has(err, "code") => hEvent.error.code = "UNKNOWN")
                /\ (~Has(err, "retriable") => hEvent.error.retriable = FALSE)

C17_Witness ==
    /\ hLog # <<>>
    /\ hLog[Len(hLog)] =
          HandleCall("addError",
                     <<[name |-> "Error", message |-> "boom", stack |-> "Error: boom"],
                       EmptyObj>>)
    /\ hEvent.error.type = "Error" /\ hEvent.error.message = "boom"
    /\ hEvent.error.code = "UNKNOWN" /\ hEvent.error.retriable = FALSE

\* C18: after addError(error, metadata) every key of metadata, the derived ones
\* (type, code, message, retriable, stack) included, holds in the error substructure
\* the value metadata gave it, and the keys metadata adds sit at the top level of the
\* error substructure.
C18_MetadataWins ==
    ErrorCalls # {} =>
        LET metadata == hLog[LastOf(ErrorCalls)].args[2]
        IN  /\ Has(hEvent, "error")
            /\ DOMAIN metadata \subseteq DOMAIN hEvent.error
            /\ \A k \in DOMAIN metadata : hEvent.error[k] = metadata[k]

C18_Witness ==
    /\ Len(hLog) = 1
    /\ hLog[1].fn = "addError"
    /\ hLog[1].args[1].name = "TimeoutError"
    /\ hEnv = "development"
    /\ hEvent.error = [type |-> "Overridden", code |-> "OVERRIDDEN",
                       message |-> "overridden", retriable |-> TRUE,
                       stack |-> "custom stack", order_id |-> "ord_1"]

\* what addError derives from the error object alone
Derived(err) ==
    [type |-> err.name,
     code |-> IF Has(err, "code") /\ err.code # "" THEN err.code ELSE "UNKNOWN",
     message |-> err.message,
     retriable |-> IF Has(err, "retriable") THEN err.retriable ELSE FALSE]

\* C19: after two addError calls the event has one error substructure, and its type,
\* message, code and retriable, where the second call's metadata does not override
\* them, are the values derived from the second error, not from the first.
C19_SecondErrorOverwrites ==
    Cardinality(ErrorCalls) >= 2 =>
        LET err == hLog[LastOf(ErrorCalls)].args[1]
            metadata == hLog[LastOf(ErrorCalls)].args[2]
        IN  /\ Has(hEvent, "error")
            /\ \A k \in {"type", "message", "code", "retriable"} \ DOMAIN metadata :
                  hEvent.error[k] = Derived(err)[k]

C19_Witness ==
    /\ Len(hLog) = 2
    /\ hLog[1].fn = "addError" /\ hLog[1].args[1].name = "PaymentError"
    /\ hLog[2].fn = "addError" /\ hLog[2].args[1].name = "Error"
    /\ hLog[2].args[2] = [order_id |-> "ord_789", attempt |-> "2"]
    /\ hEvent.error.type = "Error" /\ hEvent.error.message = "boom"
    /\ hEvent.error.code = "UNKNOWN" /\ hEvent.error.retriable = FALSE

\* the keys a call's metadata adds to the error substructure beside the derived ones
CustomKeys(i) == (DOMAIN hLog[i].args[2]) \ DerivedFields

\* C20, read as a merge: a second addError call merges into the existing error
\* substructure: a custom metadata key placed by the first call that the second call
\* does not supply is still present afterwards, with the first call's value.
C20_SecondAddErrorMerges ==
    \A i, j \in ErrorCalls :
        (i < j /\ j = LastOf(ErrorCalls)) =>
            \A k \in CustomKeys(i) \ DOMAIN hLog[j].args[2] :
                Has(hEvent.error, k) /\ hEvent.error[k] = hLog[i].args[2][k]

\* C20, read as a replacement: a second addError call replaces the error
\* substructure: after it the substructure has exactly the derived keys and the keys
\* of the second call's metadata, type/code/message/retriable/stack come from the
\* second error with the second call's metadata on top, and a custom metadata key
\* placed by the first call that the second call does not supply is no longer present.
C20_SecondAddErrorReplaces ==
    \A i, j \in ErrorCalls :
        (i < j /\ j = LastOf(ErrorCalls)) =>
            LET err == hLog[j].args[1]
                metadata == hLog[j].args[2]
            IN  /\ DOMAIN hEvent.error = DerivedFields \cup DOMAIN metadata
                /\ \A k \in CustomKeys(i) \ DOMAIN metadata : ~Has(hEvent.error, k)
                /\ \A k \in DOMAIN metadata : hEvent.error[k] = metadata[k]
                /\ \A k \in {"type", "message", "code", "retriable"} \ DOMAIN metadata :
                      hEvent.error[k] = Derived(err)[k]
                /\ ~Has(metadata, "stack") =>
                      hEvent.error.stack =
                          IF hEnv = "development" THEN err.stack ELSE Undefined

C20_Witness ==
    /\ Len(hLog) = 2
    /\ hLog[1].fn = "addError"
    /\ hLog[1].args[2] = [code |-> "PAYMENT_FAILED", order_id |-> "ord_456"]
    /\ hLog[2].fn = "addError"
    /\ hLog[2].args[2] = EmptyObj
    /\ DOMAIN hEvent.error = DerivedFields

\* the name of the inbound request-id header under configuration o
InboundIdHeader(o) ==
    IF Has(o, "requestIdHeader") THEN o.requestIdHeader ELSE "x-request-id"

\* C21: from Start on, the event's request_id and every value the middleware wrote to
\* a response header are the same string; it is the inbound request-id header's value
\* when that is non-empty and, when the request carries no such header, the one value
\* the generator produced (a UUID by default, the configured generator's value
\* otherwise).
C21_RequestIdConsistent ==
    pc # "idle" =>
        LET v == header(req, InboundIdHeader(options))
        IN  /\ event.request_id = requestId
            /\ DOMAIN resHeaders # {}
            /\ \A h \in DOMAIN resHeaders : resHeaders[h] = event.request_id
            /\ (v \notin {Undefined, ""} => event.request_id = v)
            /\ (v = Undefined =>
                    IF Has(options, "generateRequestId")
                    THEN event.request_id = "req-generated"
                    ELSE event.request_id \in UUIDs)

C21_Witness ==
    /\ pc = "done"
    /\ req.headers = EmptyObj
    /\ ~Has(options, "generateRequestId")
    /\ event.request_id = "uuid-2"
    /\ resHeaders = ("x-request-id" :> "uuid-2")
    /\ CallsOf({"logger.info"}) # {}

\* C22: with requestIdHeader configured to a name H, the inbound id is read from
\* header H and the resolved request_id is written to response header H, the only
\* response header the middleware writes.
C22_EchoUnderConfiguredName ==
    (pc # "idle" /\ Has(options, "requestIdHeader")) =>
        /\ DOMAIN resHeaders = {options.requestIdHeader}
        /\ resHeaders[options.requestIdHeader] = event.request_id
        /\ (header(req, options.requestIdHeader) \notin {Undefined, ""}
                => event.request_id = header(req, options.requestIdHeader))

\* C26: from Start on the event has query_params, the flat mapping of the request's
\* query string (/test?foo=bar&baz=qux gives [foo |-> "bar", baz |-> "qux"]), and so
\* has every value getEvent() returned to the handler.
C26_QueryParamsCaptured ==
    /\ pc # "idle" => (Has(event, "query_params") /\ event.query_params = req.query)
    /\ snapshot # EmptyObj =>
          (Has(snapshot, "query_params") /\ snapshot.query_params = req.query)

NonEmptyHeader(r, name) == name \in DOMAIN r.headers /\ r.headers[name] # ""

C23_SuccessStatusFromResponse ==
    /\ [](handlerResult.kind = "returned" =>
            /\ event.status_code = handlerResult.status
            /\ (pending = Normal \/ (\E i \in DOMAIN calls : calls[i].result = "threw")))
    /\ [][(/\ pc = "processing"
            /\ handlerResult' = handlerResult
            /\ Has(event', "error")
            /\ (~Has(event, "error") \/ event'.error # event.error))
           => (/\ pc' = "processing"
               /\ ~Has(event', "status_code")
               /\ pending' = Normal
               /\ outcome' = [kind |-> "running"])]_vars

C23_Witness ==
    /\ pc = "done"
    /\ handlerResult = [kind |-> "returned", status |-> 200]
    /\ Has(event, "error") /\ event.error.message = "declined"
    /\ Has(event, "user")
    /\ event.status_code = 200
    /\ outcome = Normal

\* everything in event ev comes from request i: its context slots hold data of the
\* handler of i in categories that handler named, its error is the error of i
OwnEvent(ev, i) ==
    /\ ev.method = ConcurrentRequest(i).method /\ ev.path = ConcurrentRequest(i).path
    /\ \A cat \in Categories :
          Has(ev, cat) =>
              /\ ev[cat] = ConcurrentData(i)
              /\ \E k \in DOMAIN cLog[i] :
                    cLog[i][k].fn = "addContext" /\ cLog[i][k].args[1] = cat
    /\ Has(ev, "error") => ev.error.message = ConcurrentError(i).message

\* C24: with two requests in flight on one middleware instance and their handler
\* steps interleaved in any order, a step of one request (its Start, a call on its
\* handle, its completion) leaves the other request's event unchanged; each event
\* holds its own request's request_id, context and error only, and so does each event
\* handed to logger.info.
C24_ConcurrentRequestsIsolated ==
    /\ [](/\ \A i \in ConcurrentRequests : cPc[i] # "idle" => OwnEvent(cEvent[i], i)
          /\ \A i, j \in ConcurrentRequests :
                (i # j /\ cPc[i] # "idle" /\ cPc[j] # "idle")
                    => cEvent[i].request_id # cEvent[j].request_id
          /\ \A k \in DOMAIN cInfo :
                /\ cInfo[k].arg.request_id = cEvent[cInfo[k].req].request_id
                /\ OwnEvent(cInfo[k].arg, cInfo[k].req)
                /\ cInfo[k].arg = JSONstringify(cEvent[cInfo[k].req]))
    /\ [][\A i, j \in ConcurrentRequests :
            (i # j /\ (cPc'[j] # cPc[j] \/ cLog'[j] # cLog[j]))
                => (cEvent'[i] = cEvent[i] /\ cPc'[i] = cPc[i] /\ cLog'[i] = cLog[i])]_vars

C24_Witness ==
    /\ cPc = [i \in ConcurrentRequests |-> "done"]
    /\ Len(cInfo) = 2 /\ cInfo[1].req = "r2" /\ cInfo[2].req = "r1"
    /\ Len(cLog["r1"]) = 2 /\ Len(cLog["r2"]) = 2
    /\ Has(cEvent["r1"], "user") /\ cEvent["r1"]["user"] = [id |-> "u1", tier |-> "basic"]
    /\ Has(cEvent["r2"], "user")
    /\ cEvent["r2"]["user"] = [tier |-> "premium", method |-> "card"]
    /\ Has(cEvent["r2"], "error") /\ cEvent["r2"].error.message = "declined"
    /\ ~Has(cEvent["r1"], "error")
    /\ cInfo[1].arg.request_id = "abc" /\ cInfo[2].arg.request_id \in UUIDs

\* C25: getEvent() returns a copy of the current event, key for key, and leaves the
\* live event unchanged; adding, reassigning or deleting top-level keys of the
\* returned object leaves the live event unchanged too.
C25_GetEventReturnsCopy ==
    [][(hLog' # hLog /\ hLog'[Len(hLog')].fn \in {"getEvent", "mutate"}) =>
          /\ hEvent' = hEvent
          /\ hLog'[Len(hLog')].fn = "getEvent" => hReturned'.props = hEvent]_vars

C25_Witness ==
    /\ Len(hLog) = 2
    /\ hLog[1].fn = "getEvent"
    /\ hLog[2] = HandleCall("mutate",
                            <<[op |-> "set", key |-> "request_id", value |-> "forged"]>>)
    /\ hReturned.props.request_id = "forged"
    /\ hEvent.request_id = "test-id"

\* C28: defaultSampling returns true for every event whose user.tier is "enterprise"
\* or "premium", whatever the status code, the duration, the sample rate and the draw.
C28_VipAlwaysKept ==
    (/\ sPc = "returned"
     /\ Has(sEvent, "user") /\ Has(sEvent.user, "tier")
     /\ sEvent.user.tier \in {"enterprise", "premium"}) =>
        sResult = TRUE

C30_DefaultThreshold400 ==
    (/\ pc = "done"
     /\ ~Has(options, "errorCode") /\ ~Has(options, "sampling")
     /\ event.status_code >= 400) =>
        CallsOf({"logger.info"}) # {}

\* the methods of the Logger and Storage collaborators
LoggerMethods == {"logger.log", "logger.debug", "logger.info", "logger.warn", "logger.error"}

StorageMethods == {"storage.get", "storage.set", "storage.delete"}

\* C31: of the logger the middleware calls info only, with one argument, the JSON
\* serialization of the finalized event (no property holding undefined), once for a
\* retained event; of the storage it calls set only.
C31_OnlyInfoAndSet ==
    /\ \A i \in DOMAIN calls :
          /\ calls[i].fn \in LoggerMethods =>
                /\ calls[i].fn = "logger.info"
                /\ Len(calls[i].args) = 1
                /\ calls[i].args[1] = JSONstringify(event)
                /\ Finalized(calls[i].args[1])
                /\ \A k \in {"client_ip", "user_agent", "content_type"} :
                      Has(calls[i].args[1], k) => calls[i].args[1][k] # Undefined
          /\ calls[i].fn \in StorageMethods => calls[i].fn = "storage.set"
          /\ calls[i].fn \in LoggerMethods \cup StorageMethods \cup SamplingFns
    /\ (shouldLog /\ pc \in {"set", "done"}) =>
          Cardinality({i \in DOMAIN calls : calls[i].fn \in LoggerMethods}) = 1

C31_Witness ==
    /\ pc = "done"
    /\ handlerResult.kind = "threw"
    /\ req.headers = EmptyObj
    /\ Len(calls) = 3
    /\ calls[2].fn = "logger.info" /\ ~Has(calls[2].args[1], "client_ip")
    /\ Has(calls[2].args[1], "error")
    /\ calls[3].fn = "storage.set"

\* The middleware entered at any instant of the clock, so that Date.now() at Start is
\* not the origin of the clock.
ClockOptionObjs == {EmptyObj, [sampleRate |-> RandomUnits, storage |-> "storage"]}

ClockInit ==
    /\ options \in ClockOptionObjs
    /\ nodeEnv = "production"
    /\ req \in Requests
    /\ now \in Instants
    /\ pc = "idle"
    /\ startTime = 0
    /\ requestId = Undefined
    /\ event = EmptyObj
    /\ snapshot = EmptyObj
    /\ resHeaders = EmptyObj
    /\ nCalls = 0
    /\ handlerResult = [kind |-> "pending"]
    /\ pending = Normal
    /\ shouldLog = FALSE
    /\ calls = <<>>
    /\ writes = [status_code |-> 0, duration_ms |-> 0]
    /\ outcome = [kind |-> "running"]
    /\ SIdle
    /\ HIdle
    /\ CIdle

ClockSpec == ClockInit /\ [][Next]_vars

\* C32: on the success and on the failure path duration_ms is the clock at finalization
\* minus the clock recorded at Start, and is not negative; the clock never runs
\* backwards, and every instant that passes while the handler is suspended lies between
\* the two readings.
C32_DurationIsElapsed ==
    /\ [](pc \notin {"idle", "processing"} =>
            /\ event.duration_ms = now - startTime
            /\ event.duration_ms >= 0)
    /\ [][/\ now' >= now
          /\ (pc = "idle" /\ pc' # "idle") => (startTime' = now /\ now' = now)
          /\ pc # "idle" => startTime' = startTime
          /\ now' # now => (pc = "processing" /\ pc' = "processing")
          /\ (pc = "processing" /\ pc' # "processing") =>
                (event'.duration_ms = now - startTime /\ now' = now)]_vars

C32_Witness ==
    /\ pc = "done"
    /\ startTime = 1
    /\ now = 2001
    /\ event.duration_ms = 2000
    /\ handlerResult.kind = "returned"

\* C33: a failure of a sink is not caught: after a handler that returned, a throwing
\* logger.info or a throwing or rejecting storage.set ends the middleware call with that
\* error; a failing storage.set comes after a logger.info that went through, and after a
\* throwing logger.info storage.set is not called.
C33_SinkFailurePropagates ==
    \A i \in DOMAIN calls :
       (calls[i].fn \in {"logger.info", "storage.set"} /\ calls[i].result = "threw") =>
          /\ i = Len(calls)
          /\ pc = "done"
          /\ handlerResult.kind = "returned" => outcome = Throw(SinkError(calls[i].fn))
          /\ calls[i].fn = "storage.set" =>
                \E j \in 1..(i - 1) :
                   calls[j].fn = "logger.info" /\ calls[j].result = "ok"
          /\ calls[i].fn = "logger.info" =>
                \A j \in DOMAIN calls : calls[j].fn # "storage.set"

C33_Witness ==
    /\ pc = "done"
    /\ handlerResult.kind = "returned"
    /\ Len(calls) = 3
    /\ calls[2].fn = "logger.info" /\ calls[2].result = "ok"
    /\ calls[3].fn = "storage.set" /\ calls[3].result = "threw"
    /\ outcome = Throw(SinkError("storage.set"))

\* C34: under the default policy every request whose handler called addError and then
\* returned is emitted, whatever the response status, the sample rate and the draw:
\* the decision is true and logger.info is called with the event carrying the error.
C34_ManualErrorEmitted ==
    (/\ ~Has(Opts(options), "sampling")
     /\ handlerResult.kind = "returned"
     /\ Has(event, "error")
     /\ pc \notin {"idle", "processing", "sampling"}) =>
        /\ shouldLog
        /\ calls[1].fn = "defaultSampling" /\ calls[1].result = "true"
        /\ pc \in {"set", "done"} =>
              /\ Len(calls) >= 2
              /\ calls[2].fn = "logger.info"
              /\ Has(calls[2].args[1], "error")

C34_Witness ==
    /\ pc = "done"
    /\ handlerResult.kind = "returned"
    /\ handlerResult.status = 200
    /\ Has(options, "sampleRate") /\ options.sampleRate = 0
    /\ Has(event, "error")
    /\ event.duration_ms = 0
    /\ Len(calls) = 2
    /\ calls[2].fn = "logger.info" /\ calls[2].result = "ok"

C36_SamplingThrowEmitsNothing ==
    \A i \in DOMAIN calls :
       (calls[i].fn = "sampling" /\ calls[i].result = "threw") =>
          /\ calls = <<calls[i]>>
          /\ ~shouldLog
          /\ pc = "done"
          /\ outcome.kind = "throw"
          /\ outcome = Throw(SinkError("sampling"))

C36_Witness ==
    /\ pc = "done"
    /\ Has(options, "storage")
    /\ handlerResult.kind = "returned"
    /\ handlerResult.status = 500
    /\ Len(calls) = 1
    /\ calls[1].fn = "sampling" /\ calls[1].result = "threw"
    /\ outcome.kind = "throw"

\* Requests with no, an empty and a non-empty inbound request-id header, under the
\* default generator, a generator returning a fixed id, a generator returning the empty
\* string, and generateRequestId: undefined.
RequestIdRequests ==
    {[method |-> "GET", path |-> "/users/42", headers |-> EmptyObj],
     [method |-> "GET", path |-> "/test", headers |-> ("x-request-id" :> "")],
     [method |-> "POST", path |-> "/orders", headers |-> ("x-request-id" :> "abc")]}

RequestIdOptionObjs ==
    {EmptyObj,
     [generateRequestId |-> "fixed"],
     [generateRequestId |-> "empty", storage |-> "storage", sampleRate |-> RandomUnits],
     [generateRequestId |-> Undefined]}

RequestIdInit ==
    /\ options \in RequestIdOptionObjs
    /\ nodeEnv = "production"
    /\ req \in RequestIdRequests
    /\ now = 0
    /\ pc = "idle"
    /\ startTime = 0
    /\ requestId = Undefined
    /\ event = EmptyObj
    /\ snapshot = EmptyObj
    /\ resHeaders = EmptyObj
    /\ nCalls = 0
    /\ handlerResult = [kind |-> "pending"]
    /\ pending = Normal
    /\ shouldLog = FALSE
    /\ calls = <<>>
    /\ writes = [status_code |-> 0, duration_ms |-> 0]
    /\ outcome = [kind |-> "running"]
    /\ SIdle
    /\ HIdle
    /\ CIdle

RequestIdSpec == RequestIdInit /\ [][Next]_vars

\* C37: the resolved request_id is never the empty string (nor undefined): with an
\* inbound header that is absent or empty the generator's value is used when that is
\* non-empty, and the built-in random UUID when the generator returns the empty string
\* or there is no generator.
C37_RequestIdNeverEmpty ==
    pc # "idle" =>
        LET v == header(req, "x-request-id")
        IN  /\ requestId \notin {"", Undefined}
            /\ event.request_id = requestId
            /\ \A i \in DOMAIN calls :
                  calls[i].fn = "storage.set" => calls[i].args[1] \notin {"", Undefined}
            /\ v \in {"", Undefined} =>
                  IF Has(options, "generateRequestId")
                     /\ options.generateRequestId = "fixed"
                  THEN requestId = "req-generated"
                  ELSE requestId \in UUIDs

C37_Witness ==
    /\ pc = "done"
    /\ header(req, "x-request-id") = ""
    /\ Has(options, "generateRequestId") /\ options.generateRequestId = "empty"
    /\ requestId = "uuid-1"
    /\ \E i \in DOMAIN calls : calls[i].fn = "storage.set" /\ calls[i].args[1] = "uuid-1"

\* C38: with slowThresholdMs configured as 0 and the default policy, every request
\* whose duration_ms is greater than 0 is retained as slow, whatever the sample rate
\* and the draw.
C38_ZeroThresholdHonoured ==
    (/\ pc = "done"
     /\ ~Has(options, "sampling")
     /\ Has(options, "slowThresholdMs") /\ options.slowThresholdMs = 0
     /\ event.duration_ms > 0) =>
        /\ calls[1].fn = "defaultSampling"
        /\ calls[1].args[2].slowThresholdMs = 0
        /\ calls[1].result = "true"
        /\ CallsOf({"logger.info"}) # {}

\* C39: when the handler called addError(e1, metadata) and afterwards throws e2, the
\* error substructure from finalization on, handed to sampling and emitted, is the one
\* built from e2 alone: type, message, code and retriable derive from e2 and it has no
\* other key, so neither a value of e1 nor a metadata key of the manual call remains.
C39_ThrownErrorReplacesManual ==
    handlerResult.kind = "threw" =>
        LET e2 == handlerResult.error
        IN  /\ Has(event, "error")
            /\ DOMAIN event.error = DerivedFields
            /\ event.error.type = e2.name
            /\ event.error.message = e2.message
            /\ event.error.code = (IF Has(e2, "code") THEN e2.code ELSE "UNKNOWN")
            /\ event.error.retriable = (IF Has(e2, "retriable") THEN e2.retriable ELSE FALSE)
            /\ \A i \in DOMAIN calls :
                  calls[i].fn = "logger.info" =>
                     /\ calls[i].args[1].error.type = e2.name
                     /\ calls[i].args[1].error.message = e2.message
                     /\ DOMAIN calls[i].args[1].error \subseteq DerivedFields

C39_Witness ==
    /\ pc = "done"
    /\ handlerResult.kind = "threw"
    /\ handlerResult.error.name = "Error"
    /\ Has(snapshot, "error")
    /\ snapshot.error.type = "PaymentError"
    /\ Has(snapshot.error, "order_id")
    /\ event.error.type = "Error" /\ event.error.code = "UNKNOWN"
    /\ \E i \in DOMAIN calls :
          calls[i].fn = "logger.info" /\ ~Has(calls[i].args[1].error, "order_id")

====
